---- MODULE Spec2Model ----
(***************************************************************************)
(* Model of robot/app.py: a Flask service with three routes (/, /health,   *)
(* /metrics) that keeps four labelled Prometheus metrics in a process-wide *)
(* registry and recomputes the robot's version and status on each request. *)
(*                                                                         *)
(* Text that the code trims (the inspection tool's stdout, the version) is *)
(* a sequence of one-character strings; robot ids and status strings are   *)
(* atoms, since the code only compares or lower-cases them.                *)
(***************************************************************************)
EXTENDS Integers, Sequences, FiniteSets, TLC

\* Number of requests the service receives one after another under Spec.
NumRequests == 3
\* Number of requests the server handles at the same time under SpecConcurrent,
\* each on a thread of its own.
MaxInFlight == 2
\* Longest stdout of the inspection tool that SpecResolver enumerates.
MaxOut == 3

Workers == 1..MaxInFlight
Endpoints == {"index", "health", "metrics"}

(***************************************************************************)
(* Strings                                                                 *)
(***************************************************************************)
Whitespace == {" ", "\n"}
Chars == {"v"} \cup Whitespace

RECURSIVE lstrip(_)
lstrip(s) ==
    IF s = <<>> THEN s
    ELSE IF Head(s) \in Whitespace THEN lstrip(Tail(s)) ELSE s

RECURSIVE rstrip(_)
rstrip(s) ==
    IF s = <<>> THEN s
    ELSE IF s[Len(s)] \in Whitespace THEN rstrip(SubSeq(s, 1, Len(s) - 1)) ELSE s

\* str.strip(): leading and trailing whitespace removed, the inside kept.
strip(s) == rstrip(lstrip(s))

\* str.lower() on the status strings the service produces.
lower(s) ==
    CASE s = "Healthy" -> "healthy"
      [] s = "Running (not containerized)" -> "running (not containerized)"
      [] s = "Unknown" -> "unknown"
      [] OTHER -> s

(***************************************************************************)
(* Environment: os.environ is a mapping that holds only the variables set. *)
(* The process never writes to it, so it is fixed from start-up on.        *)
(***************************************************************************)
NoVariables == [k \in {} |-> ""]

Environs ==
    { NoVariables,
      [k \in {"ROBOT_ID"} |-> "7"],
      [k \in {"ROBOT_ID", "APP_VERSION"} |-> IF k = "ROBOT_ID" THEN "1" ELSE <<"9">>] }

environ_get_ignoring_env(env, name, default) == default

\* os.environ.get(name, default)
environ_get(env, name, default) ==
    IF name \in DOMAIN env THEN env[name] ELSE default

DefaultRobotId == "1"
DefaultVersion == <<"1", ".", "0", ".", "0">>

(***************************************************************************)
(* The inspection tool: what subprocess.run(...) does.  Either it raises   *)
(* (tool absent, timeout after 5 s, another error) or it completes with a  *)
(* return code and the captured stdout.                                    *)
(***************************************************************************)
RECURSIVE SeqsUpTo(_, _)
SeqsUpTo(S, n) ==
    IF n = 0 THEN {<<>>}
    ELSE LET shorter == SeqsUpTo(S, n - 1)
         IN  shorter \cup {Append(s, c) : s \in shorter, c \in S}

Raised(exc) == [kind |-> "raise", exc |-> exc, returncode |-> 0, stdout |-> <<>>]
Completed(rc, out) == [kind |-> "completed", exc |-> "", returncode |-> rc, stdout |-> out]

Exceptions == {"FileNotFoundError", "TimeoutExpired", "OSError"}

\* Every outcome, for the resolver's own specification.
RunOutcomes ==
    {Raised(e) : e \in Exceptions}
    \cup {Completed(rc, out) : rc \in {0, 1}, out \in SeqsUpTo(Chars, MaxOut)}

\* The outcomes a request handler meets under Spec: one of each kind.
HandlerOutcomes ==
    { Raised("FileNotFoundError"),
      Completed(1, <<"v", "\n">>),
      Completed(0, <<"\n">>),
      Completed(0, <<" ", "v", "\n">>) }

\* Under SpecConcurrent the tool is absent, as it is inside the service's container.
ToolAbsent == {Raised("FileNotFoundError")}

get_app_version_unchecked(run, env) ==
    IF run.kind = "completed" /\ run.returncode = 0
    THEN [kind |-> "return", value |-> strip(run.stdout)]
    ELSE [kind |-> "return", value |-> environ_get(env, "APP_VERSION", DefaultVersion)]

\* get_app_version(): the try block returns the trimmed stdout on success with
\* non-empty output; every exception is swallowed; all else falls back.
get_app_version(run, env) ==
    IF run.kind = "completed" /\ run.returncode = 0 /\ strip(run.stdout) # <<>>
    THEN [kind |-> "return", value |-> strip(run.stdout)]
    ELSE [kind |-> "return", value |-> environ_get(env, "APP_VERSION", DefaultVersion)]

(***************************************************************************)
(* The marker check: os.path.exists('/.dockerenv') answers present or      *)
(* absent; "raised" is the except branch of get_container_status.          *)
(***************************************************************************)
get_container_status(check) ==
    CASE check = "present" -> "Healthy"
      [] check = "absent" -> "Running (not containerized)"
      [] OTHER -> "Unknown"

\* os.path.exists swallows OSError and ValueError itself and returns False, so a
\* request only ever sees one of these two answers.
MarkerChecks == {"present", "absent"}

health_value_of_exact(status) == IF status = "healthy" THEN 1 ELSE 0

\* health_value = 1 if status.lower() == "healthy" else 0
health_value_of(status) == IF lower(status) = "healthy" THEN 1 ELSE 0

(***************************************************************************)
(* The registry: each metric maps the label values of its children to the  *)
(* child's value.  labels() creates a child at 0 when it is new, inc() and *)
(* set() act on an existing child.  No code path removes a child.          *)
(***************************************************************************)
NoChildren == [k \in {} |-> 0]

labels(metric, key) ==
    IF key \in DOMAIN metric THEN metric
    ELSE [k \in DOMAIN metric \cup {key} |-> IF k = key THEN 0 ELSE metric[k]]

inc_overwrite(metric, key) == [metric EXCEPT ![key] = 1]

inc(metric, key) == [metric EXCEPT ![key] = @ + 1]

set_first_write_wins(metric, key, v) == [metric EXCEPT ![key] = IF @ = 0 THEN v ELSE @]

set(metric, key, v) == [metric EXCEPT ![key] = v]

(***************************************************************************)
(* State                                                                   *)
(***************************************************************************)
VARIABLES
    environ,                \* os.environ
    robot_info,             \* Gauge, labels (robot_id, version, status)
    robot_health_status,    \* Gauge, labels (robot_id)
    robot_requests_total,   \* Counter, labels (endpoint, robot_id)
    robot_version,          \* Gauge, labels (robot_id, version)
    pc,                     \* each worker thread's position in its handler
    endpoint,               \* the route of the request the worker handles
    robot_id,               \* the handler's local robot_id
    robot_data,             \* index's local robot_data
    um,                     \* update_metrics' locals
    response,               \* what the handler returned
    trace,                  \* history: the steps the worker's request has executed
    checks,                 \* history: the marker answers the worker's request saw
    arrived,                \* history: the number of requests received
    handled,                \* history: the number of requests completed, per endpoint
    last_completed,         \* history: the worker that completed a request last
    health_setter,          \* history: the worker whose health set was applied last
    resolver_run,           \* SpecResolver: the tool outcome handed to get_app_version
    resolver_ret            \* SpecResolver: what get_app_version did

registry == <<robot_info, robot_health_status, robot_requests_total, robot_version>>
locals == <<robot_id, robot_data, um, response>>
history == <<checks, arrived, handled, last_completed, health_setter>>
resolver == <<resolver_run, resolver_ret>>
vars == <<environ, registry, pc, endpoint, locals, trace, history, resolver>>

NoData == [id |-> "", version |-> <<>>, status |-> ""]
NoUm == [robot_id |-> "", version |-> <<>>, status |-> "", health_value |-> -1]
NoResponse == [code |-> 0, kind |-> "none", body |-> <<>>]
NoChecks == [page |-> "none", um |-> "none"]
NoRun == [kind |-> "none", exc |-> "", returncode |-> 0, stdout |-> <<>>]
NoReturn == [kind |-> "pending", value |-> <<>>]

(***************************************************************************)
(* Control flow of the handlers, one step per registry operation.          *)
(***************************************************************************)
update_metrics_steps ==
    << "um_resolve",                      \* lines 45-47
       "info_labels", "info_set",         \* line 50
       "version_labels", "version_set",   \* line 51
       "health_labels", "health_set" >>   \* lines 54-55

handler_steps_respond_early(e) ==
    IF e = "index"
    THEN <<"requests_labels", "requests_inc", "robot_data">>
             \o update_metrics_steps \o <<"respond">>
    ELSE <<"requests_labels", "requests_inc", "respond">> \o update_metrics_steps

handler_steps_cheap_health(e) ==
    CASE e = "index" ->
           <<"requests_labels", "requests_inc", "robot_data">>
               \o update_metrics_steps \o <<"respond">>
      [] e = "health" -> <<"requests_labels", "requests_inc", "respond">>
      [] OTHER ->
           <<"requests_labels", "requests_inc">> \o update_metrics_steps \o <<"respond">>

handler_steps(e) ==
    IF e = "index"
    THEN <<"requests_labels", "requests_inc", "robot_data">>
             \o update_metrics_steps \o <<"respond">>
    ELSE <<"requests_labels", "requests_inc">>
             \o update_metrics_steps \o <<"respond">>

\* The step that follows step p of the handler of e; "done" after the last one.
after(e, p) ==
    LET steps == handler_steps(e)
        i == CHOOSE j \in 1..Len(steps) : steps[j] = p
    IN  IF i = Len(steps) THEN "done" ELSE steps[i + 1]

Idle == {w \in Workers : pc[w] \in {"waiting", "done"}}
InFlight == Workers \ Idle
Quiescent == InFlight = {}

\* Worker w has executed its current step.
Advance(w) ==
    LET next == after(endpoint[w], pc[w])
    IN  /\ pc' = [pc EXCEPT ![w] = next]
        /\ trace' = [trace EXCEPT ![w] = Append(@, pc[w])]
        /\ handled' = IF next = "done"
                      THEN [handled EXCEPT ![endpoint[w]] = @ + 1] ELSE handled
        /\ last_completed' = IF next = "done" THEN w ELSE last_completed

(***************************************************************************)
(* Initial state: the module has been imported, the four metrics are       *)
(* declared and have no children, no request has arrived.                  *)
(***************************************************************************)
InitService ==
    /\ robot_info = NoChildren
    /\ robot_health_status = NoChildren
    /\ robot_requests_total = NoChildren
    /\ robot_version = NoChildren
    /\ pc = [w \in Workers |-> "waiting"]
    /\ endpoint = [w \in Workers |-> "none"]
    /\ robot_id = [w \in Workers |-> ""]
    /\ robot_data = [w \in Workers |-> NoData]
    /\ um = [w \in Workers |-> NoUm]
    /\ response = [w \in Workers |-> NoResponse]
    /\ trace = [w \in Workers |-> <<>>]
    /\ checks = [w \in Workers |-> NoChecks]
    /\ arrived = 0
    /\ handled = [e \in Endpoints |-> 0]
    /\ last_completed = 0
    /\ health_setter = 0

Init ==
    /\ environ \in Environs
    /\ InitService
    /\ resolver_run = NoRun
    /\ resolver_ret = NoReturn

(***************************************************************************)
(* The handlers.  A request arrives at a route and is given to the first   *)
(* idle worker thread, whose frame starts afresh; the handler reads        *)
(* ROBOT_ID (lines 60, 75, 83).                                            *)
(***************************************************************************)
Arrive(w, e, limit, total) ==
    /\ w \in Idle
    /\ \A v \in Idle : w <= v
    /\ Cardinality(InFlight) < limit
    /\ arrived < total
    /\ arrived' = arrived + 1
    /\ pc' = [pc EXCEPT ![w] = handler_steps(e)[1]]
    /\ endpoint' = [endpoint EXCEPT ![w] = e]
    /\ robot_id' = [robot_id EXCEPT ![w] = environ_get(environ, "ROBOT_ID", DefaultRobotId)]
    /\ robot_data' = [robot_data EXCEPT ![w] = NoData]
    /\ um' = [um EXCEPT ![w] = NoUm]
    /\ response' = [response EXCEPT ![w] = NoResponse]
    /\ trace' = [trace EXCEPT ![w] = <<>>]
    /\ checks' = [checks EXCEPT ![w] = NoChecks]
    /\ UNCHANGED <<environ, registry, handled, last_completed, health_setter, resolver>>

\* robot_requests_total.labels(endpoint=..., robot_id=robot_id)   (lines 61, 76, 84)
requests_labels(w) ==
    /\ pc[w] = "requests_labels"
    /\ robot_requests_total' = labels(robot_requests_total, <<endpoint[w], robot_id[w]>>)
    /\ Advance(w)
    /\ UNCHANGED <<environ, robot_info, robot_health_status, robot_version, endpoint,
                   locals, checks, arrived, health_setter, resolver>>

\* .inc()   (lines 61, 76, 84)
requests_inc(w) ==
    /\ pc[w] = "requests_inc"
    /\ robot_requests_total' = inc(robot_requests_total, <<endpoint[w], robot_id[w]>>)
    /\ Advance(w)
    /\ UNCHANGED <<environ, robot_info, robot_health_status, robot_version, endpoint,
                   locals, checks, arrived, health_setter, resolver>>

\* index builds robot_data from its own calls of the two resolvers (lines 63-67).
index_robot_data(w, runs) ==
    /\ pc[w] = "robot_data"
    /\ \E run \in runs, check \in MarkerChecks :
          /\ robot_data' = [robot_data EXCEPT ![w] =
                               [id |-> robot_id[w],
                                version |-> get_app_version(run, environ).value,
                                status |-> get_container_status(check)]]
          /\ checks' = [checks EXCEPT ![w].page = check]
    /\ Advance(w)
    /\ UNCHANGED <<environ, registry, endpoint, robot_id, um, response, arrived,
                   health_setter, resolver>>

\* update_metrics reads ROBOT_ID and calls the two resolvers itself (lines 45-47).
update_metrics_resolve(w, runs) ==
    /\ pc[w] = "um_resolve"
    /\ \E run \in runs, check \in MarkerChecks :
          /\ um' = [um EXCEPT ![w] =
                       [robot_id |-> environ_get(environ, "ROBOT_ID", DefaultRobotId),
                        version |-> get_app_version(run, environ).value,
                        status |-> get_container_status(check),
                        health_value |-> -1]]
          /\ checks' = [checks EXCEPT ![w].um = check]
    /\ Advance(w)
    /\ UNCHANGED <<environ, registry, endpoint, robot_id, robot_data, response, arrived,
                   health_setter, resolver>>

info_key(w) == <<um[w].robot_id, um[w].version, um[w].status>>
version_key(w) == <<um[w].robot_id, um[w].version>>

\* robot_info.labels(robot_id=..., version=..., status=...)   (line 50)
info_labels(w) ==
    /\ pc[w] = "info_labels"
    /\ robot_info' = labels(robot_info, info_key(w))
    /\ Advance(w)
    /\ UNCHANGED <<environ, robot_health_status, robot_requests_total, robot_version,
                   endpoint, locals, checks, arrived, health_setter, resolver>>

\* .set(1)   (line 50)
info_set(w) ==
    /\ pc[w] = "info_set"
    /\ robot_info' = set(robot_info, info_key(w), 1)
    /\ Advance(w)
    /\ UNCHANGED <<environ, robot_health_status, robot_requests_total, robot_version,
                   endpoint, locals, checks, arrived, health_setter, resolver>>

\* robot_version.labels(robot_id=..., version=...)   (line 51)
version_labels(w) ==
    /\ pc[w] = "version_labels"
    /\ robot_version' = labels(robot_version, version_key(w))
    /\ Advance(w)
    /\ UNCHANGED <<environ, robot_info, robot_health_status, robot_requests_total,
                   endpoint, locals, checks, arrived, health_setter, resolver>>

\* .set(1)   (line 51)
version_set(w) ==
    /\ pc[w] = "version_set"
    /\ robot_version' = set(robot_version, version_key(w), 1)
    /\ Advance(w)
    /\ UNCHANGED <<environ, robot_info, robot_health_status, robot_requests_total,
                   endpoint, locals, checks, arrived, health_setter, resolver>>

\* health_value = ...; robot_health_status.labels(robot_id=robot_id)   (lines 54-55)
health_labels(w) ==
    /\ pc[w] = "health_labels"
    /\ um' = [um EXCEPT ![w].health_value = health_value_of(um[w].status)]
    /\ robot_health_status' = labels(robot_health_status, um[w].robot_id)
    /\ Advance(w)
    /\ UNCHANGED <<environ, robot_info, robot_requests_total, robot_version, endpoint,
                   robot_id, robot_data, response, checks, arrived, health_setter,
                   resolver>>

\* .set(health_value)   (line 55)
health_set(w) ==
    /\ pc[w] = "health_set"
    /\ robot_health_status' = set(robot_health_status, um[w].robot_id, um[w].health_value)
    /\ health_setter' = w
    /\ Advance(w)
    /\ UNCHANGED <<environ, robot_info, robot_requests_total, robot_version, endpoint,
                   locals, checks, arrived, resolver>>

\* generate_latest(): every series of the four metrics, as the registry holds them.
generate_latest ==
    [robot_info |-> robot_info,
     robot_health_status |-> robot_health_status,
     robot_requests_total |-> robot_requests_total,
     robot_version |-> robot_version]

health_response_by_status(w) ==
    IF um[w].status = "Healthy"
    THEN [code |-> 200, kind |-> "json", body |-> [status |-> "healthy"]]
    ELSE [code |-> 503, kind |-> "json", body |-> [status |-> "unhealthy"]]

\* return {'status': 'healthy'}, 200   (line 78)
health_response(w) ==
    [code |-> 200, kind |-> "json", body |-> [status |-> "healthy"]]

\* return render_template('index.html', robot=robot_data)   (line 70)
index_response(w) ==
    [code |-> 200, kind |-> "html", body |-> robot_data[w]]

\* return Response(generate_latest(), mimetype=CONTENT_TYPE_LATEST)   (line 86)
metrics_response(w) ==
    [code |-> 200, kind |-> "text", body |-> generate_latest]

respond(w) ==
    /\ pc[w] = "respond"
    /\ response' = [response EXCEPT ![w] =
                       CASE endpoint[w] = "index" -> index_response(w)
                         [] endpoint[w] = "health" -> health_response(w)
                         [] OTHER -> metrics_response(w)]
    /\ Advance(w)
    /\ UNCHANGED <<environ, registry, endpoint, robot_id, robot_data, um, checks,
                   arrived, health_setter, resolver>>

Step(w, runs) ==
    \/ requests_labels(w)
    \/ requests_inc(w)
    \/ index_robot_data(w, runs)
    \/ update_metrics_resolve(w, runs)
    \/ info_labels(w)
    \/ info_set(w)
    \/ version_labels(w)
    \/ version_set(w)
    \/ health_labels(w)
    \/ health_set(w)
    \/ respond(w)

(***************************************************************************)
(* Spec: NumRequests requests, handled one after another.                  *)
(* SpecConcurrent: MaxInFlight requests, each on a thread of its own,      *)
(* their registry operations interleaved in every order.                   *)
(***************************************************************************)
Next ==
    \E w \in Workers :
        \/ \E e \in Endpoints : Arrive(w, e, 1, NumRequests)
        \/ Step(w, HandlerOutcomes)

Spec == Init /\ [][Next]_vars

\* The interleavings do not depend on the environment: one setting of it.
InitConcurrent ==
    /\ environ = [k \in {"ROBOT_ID"} |-> "7"]
    /\ InitService
    /\ resolver_run = NoRun
    /\ resolver_ret = NoReturn

NextConcurrent ==
    \E w \in Workers :
        \/ \E e \in Endpoints : Arrive(w, e, MaxInFlight, MaxInFlight)
        \/ Step(w, ToolAbsent)

SpecConcurrent == InitConcurrent /\ [][NextConcurrent]_vars

(***************************************************************************)
(* SpecResolver: get_app_version alone, on every outcome of the tool and   *)
(* every setting of APP_VERSION.                                           *)
(***************************************************************************)
ResolverEnvirons ==
    {NoVariables} \cup {[k \in {"APP_VERSION"} |-> a] : a \in {<<>>, <<"9">>, <<"v">>}}

InitResolver ==
    /\ environ \in ResolverEnvirons
    /\ InitService
    /\ resolver_run \in RunOutcomes
    /\ resolver_ret = NoReturn

call_get_app_version ==
    /\ resolver_ret.kind = "pending"
    /\ resolver_ret' = get_app_version(resolver_run, environ)
    /\ UNCHANGED <<environ, registry, pc, endpoint, locals, trace, history, resolver_run>>

NextResolver == call_get_app_version

SpecResolver == InitResolver /\ [][NextResolver]_vars

(***************************************************************************)
(* Properties                                                              *)
(***************************************************************************)
\* The value ROBOT_ID stands for: the environment's, "1" when it is unset.
ExpectedRobotId == IF "ROBOT_ID" \in DOMAIN environ THEN environ["ROBOT_ID"] ELSE "1"

\* The value of a series, 0 when the child does not exist.
value(metric, key) == IF key \in DOMAIN metric THEN metric[key] ELSE 0

Done(w) == pc[w] = "done"
Executed(w, step) == \E i \in 1..Len(trace[w]) : trace[w][i] = step
IsPrefix(s, t) == Len(s) <= Len(t) /\ s = SubSeq(t, 1, Len(s))

\* C1: each request raises the request counter of its own endpoint, under the
\* current ROBOT_ID, by exactly 1 and no other series: at every moment each
\* endpoint's counter equals the number of requests completed for that endpoint
\* plus 1 if the request being handled is for that endpoint and has passed its
\* increment; so between requests it equals the number of requests handled.
C1_RequestCountedOnce ==
    /\ \A k \in DOMAIN robot_requests_total : k[1] \in Endpoints /\ k[2] = ExpectedRobotId
    /\ \A e \in Endpoints :
          value(robot_requests_total, <<e, ExpectedRobotId>>)
              = handled[e]
                + Cardinality({w \in InFlight : endpoint[w] = e /\ Executed(w, "requests_inc")})

C1_Witness ==
    /\ Quiescent
    /\ handled["index"] = 2
    /\ handled["health"] = 1
    /\ value(robot_requests_total, <<"index", ExpectedRobotId>>) = 2
    /\ value(robot_requests_total, <<"health", ExpectedRobotId>>) = 1
    /\ value(robot_requests_total, <<"metrics", ExpectedRobotId>>) = 0

\* C2: between requests, the robot_info and robot_version series with value 1
\* are exactly those labelled with the identity the most recent request computed.
C2_OnlyLatestIdentityExposed ==
    (Quiescent /\ last_completed # 0) =>
        /\ {k \in DOMAIN robot_info : robot_info[k] = 1} = {info_key(last_completed)}
        /\ {k \in DOMAIN robot_version : robot_version[k] = 1} = {version_key(last_completed)}

\* t is s without its leading and trailing whitespace.
IsTrimOf(t, s) ==
    \E i, j \in 0..Len(s) :
        /\ i + j <= Len(s)
        /\ t = SubSeq(s, i + 1, Len(s) - j)
        /\ \A k \in 1..i : s[k] \in Whitespace
        /\ \A k \in (Len(s) - j + 1)..Len(s) : s[k] \in Whitespace
        /\ t # <<>> => (t[1] \notin Whitespace /\ t[Len(t)] \notin Whitespace)

ToolSucceeded ==
    /\ resolver_run.kind = "completed"
    /\ resolver_run.returncode = 0
    /\ \E i \in 1..Len(resolver_run.stdout) : resolver_run.stdout[i] \notin Whitespace

\* C3: get_app_version always returns; it returns the trimmed stdout when the
\* tool exited with 0 and printed something other than whitespace, and in every
\* other outcome APP_VERSION if it is set and "1.0.0" if not.
C3_VersionResolved ==
    resolver_ret.kind # "pending" =>
        /\ resolver_ret.kind = "return"
        /\ ToolSucceeded =>
              /\ IsTrimOf(resolver_ret.value, resolver_run.stdout)
              /\ resolver_ret.value # <<>>
        /\ ~ToolSucceeded =>
              resolver_ret.value =
                  IF "APP_VERSION" \in DOMAIN environ
                  THEN environ["APP_VERSION"]
                  ELSE <<"1", ".", "0", ".", "0">>

C3_Witness ==
    /\ resolver_ret.kind = "return"
    /\ resolver_run = Completed(0, <<" ", "v", "\n">>)
    /\ resolver_ret.value = <<"v">>
    /\ "APP_VERSION" \in DOMAIN environ

\* C4: the health gauge is always 0 or 1; once a request has completed, its
\* status is "Healthy" and the gauge is 1 if its marker check found the marker,
\* and its status is another string and the gauge is 0 if the check did not.
C4_HealthFollowsMarker ==
    /\ \A k \in DOMAIN robot_health_status : robot_health_status[k] \in {0, 1}
    /\ (Quiescent /\ last_completed # 0) =>
          LET w == last_completed
              gauge == value(robot_health_status, ExpectedRobotId)
          IN  /\ DOMAIN robot_health_status = {ExpectedRobotId}
              /\ checks[w].um \in {"present", "absent"}
              /\ checks[w].um = "present" => (um[w].status = "Healthy" /\ gauge = 1)
              /\ checks[w].um = "absent" =>
                    /\ um[w].status \in {"Running (not containerized)", "Unknown"}
                    /\ gauge = 0
              /\ endpoint[w] = "index" =>
                    (response[w].body.status = "Healthy" <=> checks[w].page = "present")

C4_Witness ==
    /\ Quiescent
    /\ arrived = 2
    /\ checks[last_completed].um = "present"
    /\ robot_health_status[ExpectedRobotId] = 1
    /\ \E k \in DOMAIN robot_info : k[3] = "Running (not containerized)"

\* C5: every response to /health is 200 with the body {"status": "healthy"},
\* whatever the marker, the tool and the environment were.
C5_HealthAlwaysHealthy ==
    \A w \in Workers :
        (Done(w) /\ endpoint[w] = "health") =>
            /\ response[w].code = 200
            /\ response[w].body = [status |-> "healthy"]

C5_Witness ==
    \E w \in Workers :
        /\ Done(w)
        /\ endpoint[w] = "health"
        /\ um[w].status = "Running (not containerized)"
        /\ um[w].version = <<"1", ".", "0", ".", "0">>
        /\ response[w].code = 200

HasAllFour(m) ==
    /\ DOMAIN m.robot_info # {}
    /\ DOMAIN m.robot_health_status # {}
    /\ DOMAIN m.robot_requests_total # {}
    /\ DOMAIN m.robot_version # {}

\* C6: once a request to any endpoint has completed, each of the four metrics
\* has at least one series in the registry, and the body of every /metrics
\* response, the first request's included, has series of all four.
C6_AllFourMetricsPresent ==
    /\ (\E e \in Endpoints : handled[e] > 0) => HasAllFour(generate_latest)
    /\ \A w \in Workers :
          (Done(w) /\ endpoint[w] = "metrics") => HasAllFour(response[w].body)

C6_Witness ==
    /\ arrived = 1
    /\ \E w \in Workers :
          /\ Done(w)
          /\ endpoint[w] = "metrics"
          /\ HasAllFour(response[w].body)

\* C7: the id on the index page and the robot_id label of every series that a
\* request writes is the value of ROBOT_ID, and "1" when ROBOT_ID is unset.
C7_ReportedRobotId ==
    /\ \A k \in DOMAIN robot_info : k[1] = ExpectedRobotId
    /\ \A k \in DOMAIN robot_version : k[1] = ExpectedRobotId
    /\ \A k \in DOMAIN robot_health_status : k = ExpectedRobotId
    /\ \A k \in DOMAIN robot_requests_total : k[2] = ExpectedRobotId
    /\ \A w \in Workers :
          (Done(w) /\ endpoint[w] = "index") => response[w].body.id = ExpectedRobotId

C7_Witness ==
    /\ "ROBOT_ID" \notin DOMAIN environ
    /\ handled["health"] = 1
    /\ DOMAIN robot_health_status = {"1"}
    /\ \E w \in Workers :
          /\ Done(w)
          /\ endpoint[w] = "index"
          /\ response[w].body.id = "1"

\* C8 as claimed: in every handler the steps that compute a part of the response
\* (index's robot_data, and the final return) all come after update_metrics ran.
C8_NoResponsePartBeforeUpdate ==
    \A w \in Workers :
        \A i \in 1..Len(trace[w]) :
            trace[w][i] \in {"robot_data", "respond"} =>
                \E j \in 1..(i - 1) : trace[w][j] = "health_set"

UpdateMetricsOrder ==
    << "um_resolve", "info_labels", "info_set", "version_labels", "version_set",
       "health_labels", "health_set" >>

\* C8, amended: every handler increments its counter, then runs update_metrics,
\* then returns its response; /health and /metrics compute no part of the
\* response before update_metrics ran, index resolves the page's version and
\* status between the increment and update_metrics.  The body of a /metrics
\* response includes the request's own increment and the gauge values that the
\* request's update_metrics wrote.
C8_HandlerOrder ==
    \A w \in Workers :
        /\ endpoint[w] = "index" =>
              IsPrefix(trace[w], <<"requests_labels", "requests_inc", "robot_data">>
                                     \o UpdateMetricsOrder \o <<"respond">>)
        /\ endpoint[w] \in {"health", "metrics"} =>
              IsPrefix(trace[w], <<"requests_labels", "requests_inc">>
                                     \o UpdateMetricsOrder \o <<"respond">>)
        /\ Done(w) => Executed(w, "respond")
        /\ (Done(w) /\ endpoint[w] = "metrics" /\ last_completed = w /\ Quiescent) =>
              LET body == response[w].body
              IN  /\ value(body.robot_requests_total, <<"metrics", ExpectedRobotId>>)
                        = handled["metrics"]
                  /\ handled["metrics"] >= 1
                  /\ value(body.robot_info, info_key(w)) = 1
                  /\ value(body.robot_version, version_key(w)) = 1
                  /\ info_key(w) \in DOMAIN body.robot_info
                  /\ um[w].robot_id \in DOMAIN body.robot_health_status
                  /\ body.robot_health_status[um[w].robot_id] = um[w].health_value
                  /\ um[w].health_value = (IF checks[w].um = "present" THEN 1 ELSE 0)

C8_Witness ==
    /\ Quiescent
    /\ arrived = 2
    /\ handled["metrics"] = 2
    /\ Done(last_completed)
    /\ endpoint[last_completed] = "metrics"
    /\ response[last_completed].body.robot_requests_total[<<"metrics", ExpectedRobotId>>] = 2
    /\ response[last_completed].body.robot_health_status[ExpectedRobotId] = 1

\* C9: whatever the interleaving of the registry operations of concurrent
\* requests, once all of them have completed each endpoint's counter equals the
\* number of requests handled for it, and the health gauge holds the value
\* computed by the request whose set was applied last.
C9_NoLostUpdate ==
    Quiescent =>
        /\ \A e \in Endpoints :
              value(robot_requests_total, <<e, ExpectedRobotId>>) = handled[e]
        /\ \A k \in DOMAIN robot_requests_total : k[2] = ExpectedRobotId
        /\ health_setter # 0 =>
              /\ DOMAIN robot_health_status = {ExpectedRobotId}
              /\ robot_health_status[ExpectedRobotId] = um[health_setter].health_value
              /\ um[health_setter].health_value
                    = (IF checks[health_setter].um = "present" THEN 1 ELSE 0)

C9_Witness ==
    /\ \A w \in Workers : Done(w)
    /\ arrived = 2
    /\ endpoint[1] = "health" /\ endpoint[2] = "health"
    /\ robot_requests_total[<<"health", ExpectedRobotId>>] = 2
    /\ um[1].health_value = 1 /\ um[2].health_value = 0
    /\ health_setter = 1
    /\ last_completed = 2
    /\ robot_health_status[ExpectedRobotId] = 1

\* C10: the identity on the page that a request to / returns is the identity
\* the same request wrote into the labels of robot_info and robot_version.
C10_PageMatchesRegistry ==
    \A w \in Workers :
        (Done(w) /\ endpoint[w] = "index") =>
            response[w].body =
                [id |-> um[w].robot_id, version |-> um[w].version, status |-> um[w].status]

====
